---- MODULE Spec2Model ----
(***************************************************************************)
(* Order-lifecycle state machine of the Scalping Bot ACSIL study           *)
(* (src/scalping_bot.cpp, scsf_Scalping_Bot).                              *)
(*                                                                         *)
(* The study function is called by the host once per chart update.  One    *)
(* call may run the bootstrap (full recalculation, bar index 0), the main  *)
(* trading logic (last bar of the chart), or both (a chart of one bar).    *)
(* The host's order book, the position and the asynchronous effect of      *)
(* cancel and flatten requests are the environment.                        *)
(*                                                                         *)
(* Prices, the volatility reading R and the offsets are integers in raw    *)
(* price units; the tick increment is TickSz raw units.  The three         *)
(* configured fractions are rationals n / FracDen.                         *)
(*                                                                         *)
(* Log messages and the PID_LAST_LOGGED_* debounce slots only decide what  *)
(* is written to the message log and are left out.                         *)
(***************************************************************************)
EXTENDS Integers, Sequences, FiniteSets, TLC

\* ---------------------------------------------------------------- bounds
\* Size of the host's order list: a bracket takes six orders (two entry
\* legs, each with a stop and a target), and the host refuses a submission
\* that does not fit.
MaxOrders == 9
\* Largest absolute position quantity the account can hold.
MaxPos == 3

\* ------------------------------------------------------------- constants
\* enum TradeSide
SIDE_FLAT == 0
SIDE_LONG == 1
SIDE_SHORT == 2
\* Binary digits in the significand of the model's float: integers below
\* 2^MantBits are exact, larger values are rounded.
MantBits == 5
\* Raw price units per tick increment (sc.TickSize when valid).
TickSz == 2
\* Denominator of the configured fractions: BracketFrac = n / FracDen.
FracDen == 2

\* Input domains of one call of the study function.
RValues == {0, 1, 4}
Closes == {10, 11}
Times == 0..1
\* The three fractions (bracket, stop, target), as numerators over FracDen.
FracInputs == {<<1, 1, 2>>, <<2, 1, 1>>}
\* The volatility subgraph at the current bar: no value, or one value.
VolInputs == {<<>>} \cup {<<r>> : r \in RValues}
\* The window inputs of a call that passes the gate: window off, or on with
\* start <= time < stop.
WindowInputs ==
    {[use |-> FALSE, time |-> 0, start |-> 0, stop |-> 0]}
        \cup {[use |-> TRUE, time |-> t, start |-> s, stop |-> e] :
                 t \in {0}, s \in {0}, e \in {1}}

\* The window inputs of a call with "Enable Trading" off: window off, or on
\* with the time at the stop time.
DisabledWindows ==
    {[use |-> FALSE, time |-> 0, start |-> 0, stop |-> 0],
     [use |-> TRUE, time |-> 1, start |-> 0, stop |-> 1]}

VARIABLES
    bot,            \* the persistent ints: buy, sell, active, side, armed
    orders,         \* the host's order list: id -> order
    pos,            \* the account's position quantity
    pendingCancel,  \* cancel requests sent and not yet acted on
    pendingFlatten, \* a flatten request sent and not yet acted on
    last,           \* what the call of the study function in progress did
    prev,           \* the path of the previous call, when it was one that
                    \* reset the persistent ints ("none" otherwise)
    calc            \* the offset calculation on its own: inputs and results

vars == <<bot, orders, pos, pendingCancel, pendingFlatten, last, prev, calc>>

OrderIds == 1..MaxOrders

\* An id the host has not assigned yet.
NoOrder == [status |-> "None", parent |-> 0, type |-> "None", price |-> 0, dir |-> 0]

\* sc.GetPersistentInt: every slot is 0 before the study first writes it.
ZeroBot == [buy |-> 0, sell |-> 0, active |-> 0, side |-> SIDE_FLAT, armed |-> FALSE]

\* No offset calculation is being looked at.
NoCalc == [R |-> 0, fracs |-> <<0, 0, 0>>, tick |-> 0, done |-> FALSE,
           entry |-> 0, stop |-> 0, target |-> 0,
           close |-> 0, path |-> "none", sub |-> <<>>, calls |-> 0]

\* No call of the study function is being looked at.
NoLast ==
    [kind |-> "none", path |-> "none", pre |-> ZeroBot, calls |-> <<>>,
     enabled |-> TRUE,
     win |-> [use |-> FALSE, time |-> 0, start |-> 0, stop |-> 0]]

\* ------------------------------------------------------- order book reads

\* Number of orders in the list (ids are assigned consecutively).
NumOrders(ord) == Cardinality({i \in OrderIds : ord[i].status # "None"})

\* sc.GetOrderByIndex, index 0, 1, ... until SCTRADING_ORDER_ERROR: the ids in
\* the order the host enumerates them (oldest first or newest first).
EnumerateOrders(ord, asc) ==
    LET n == NumOrders(ord)
    IN  [k \in 1..n |-> IF asc THEN k ELSE n + 1 - k]

\* sc.GetOrderByOrderID(id, order) != SCTRADING_ORDER_ERROR
OrderFound(ord, id) == id \in OrderIds /\ ord[id].status # "None"

\* The inner loop of the bootstrap: orders whose parent is `id`.
ChildOrderCount(ord, id) ==
    Cardinality({c \in OrderIds : ord[c].status # "None" /\ ord[c].parent = id})

\* An open top-level limit order with exactly two children.
IsCandidateParent(ord, id) ==
    /\ ord[id].status = "Open"
    /\ ord[id].parent = 0
    /\ ord[id].type = "Limit"
    /\ ChildOrderCount(ord, id) = 2

\* validParentLimitOrderIDs, in push_back order.
ValidParentLimitOrderIDs(ord, asc) ==
    LET Test(id) == IsCandidateParent(ord, id)
    IN  SelectSeq(EnumerateOrders(ord, asc), Test)

\* ------------------------------------------------------------- bootstrap

\* Step 2 of the bootstrap: the side inferred from the position quantity.
InferSide(p) ==
    IF p > 0 THEN SIDE_LONG ELSE IF p < 0 THEN SIDE_SHORT ELSE SIDE_FLAT

\* Variant: the two candidates taken in enumeration order.
RearmBracket_ByEnumeration(b, ord, cands) ==
    [b EXCEPT !.buy = cands[1], !.sell = cands[2], !.armed = TRUE]

\* Variant: the higher-priced candidate becomes the buy leg.
RearmBracket_HighIsBuy(b, ord, cands) ==
    LET a == cands[1]
        c == cands[2]
    IN  IF ord[a].price > ord[c].price
        THEN [b EXCEPT !.buy = a, !.sell = c, !.armed = TRUE]
        ELSE [b EXCEPT !.buy = c, !.sell = a, !.armed = TRUE]

\* Step 3, the two candidates ordered by price.
RearmBracket(b, ord, cands) ==
    LET a == cands[1]
        c == cands[2]
    IN  IF ord[a].price < ord[c].price
        THEN [b EXCEPT !.buy = a, !.sell = c, !.armed = TRUE]
        ELSE [b EXCEPT !.buy = c, !.sell = a, !.armed = TRUE]

\* Variant: two or more candidates re-arm the bracket.
Bootstrap_ArmsOnTwoOrMore(b, ord, p, asc) ==
    LET b1 == [b EXCEPT !.buy = 0, !.sell = 0, !.active = 0, !.armed = FALSE]
        b2 == [b1 EXCEPT !.side = InferSide(p)]
        cands == ValidParentLimitOrderIDs(ord, asc)
    IN  IF b2.side = SIDE_FLAT
        THEN IF Len(cands) >= 2 THEN RearmBracket(b2, ord, cands) ELSE b2
        ELSE IF b2.armed THEN [b2 EXCEPT !.armed = FALSE] ELSE b2

\* Variant: the side is not taken from the position.
Bootstrap_IgnoresPosition(b, ord, p, asc) ==
    LET b1 == [b EXCEPT !.buy = 0, !.sell = 0, !.active = 0, !.armed = FALSE]
        b2 == [b1 EXCEPT !.side = SIDE_FLAT]
        cands == ValidParentLimitOrderIDs(ord, asc)
    IN  IF Len(cands) = 2 THEN RearmBracket(b2, ord, cands) ELSE b2

\* The bootstrap block (sc.IsFullRecalculation && sc.Index == 0).
Bootstrap(b, ord, p, asc) ==
    LET b1 == [b EXCEPT !.buy = 0, !.sell = 0, !.active = 0, !.armed = FALSE]
        b2 == [b1 EXCEPT !.side = InferSide(p)]
        cands == ValidParentLimitOrderIDs(ord, asc)
    IN  IF b2.side = SIDE_FLAT
        THEN IF Len(cands) = 2 THEN RearmBracket(b2, ord, cands) ELSE b2
        ELSE IF b2.armed THEN [b2 EXCEPT !.armed = FALSE] ELSE b2

\* ------------------------------------------------------- adapter calls

\* One call the study makes on the host's trading interface, in call order.
Call(op, id) == [op |-> op, id |-> id]

\* What one run of the main trading logic yields: the persistent ints, the
\* calls it made, the path it took and the bracket it got accepted, if any.
Outcome(b, calls, path) == [bot |-> b, calls |-> calls, path |-> path, sub |-> <<>>]

\* The cancel calls of an armed bracket (only ids that are set).
CancelLegs(b) ==
    (IF b.buy # 0 THEN <<Call("cancel", b.buy)>> ELSE <<>>)
        \o (IF b.sell # 0 THEN <<Call("cancel", b.sell)>> ELSE <<>>)

\* sc.GetTradePosition followed by sc.FlattenPosition when the quantity is
\* not zero.
FlattenIfOpen(p) ==
    <<Call("getPosition", 0)>> \o (IF p # 0 THEN <<Call("flatten", 0)>> ELSE <<>>)

\* ----------------------------------------------------- trading-window gate

\* GateBeforeWindow resetting the trade side with the ids.
GateBeforeWindow_ResetsSide(b) ==
    IF b.armed
    THEN Outcome(ZeroBot, CancelLegs(b), "before")
    ELSE Outcome([b EXCEPT !.side = SIDE_FLAT], <<>>, "before")

\* GateBeforeWindow disarming the bracket without clearing the leg ids.
GateBeforeWindow_KeepsIds(b) ==
    IF b.armed
    THEN Outcome([b EXCEPT !.armed = FALSE, !.active = 0], CancelLegs(b), "before")
    ELSE Outcome(b, <<>>, "before")

\* currentTime < tradingStartTime
GateBeforeWindow(b) ==
    IF b.armed
    THEN Outcome([b EXCEPT !.buy = 0, !.sell = 0, !.armed = FALSE, !.active = 0],
                 CancelLegs(b), "before")
    ELSE Outcome(b, <<>>, "before")

\* GateAfterWindow canceling the buy leg only.
GateAfterWindow_CancelsOnlyBuy(b, p) ==
    Outcome(ZeroBot,
            (IF b.armed /\ b.buy # 0 THEN <<Call("cancel", b.buy)>> ELSE <<>>)
                \o FlattenIfOpen(p),
            "after")

\* GateAfterWindow without the reset of the persistent ints.
GateAfterWindow_KeepsState(b, p) ==
    Outcome(b, (IF b.armed THEN CancelLegs(b) ELSE <<>>) \o FlattenIfOpen(p),
            "after")

\* currentTime >= tradingStopTime
GateAfterWindow(b, p) ==
    Outcome(ZeroBot,
            (IF b.armed THEN CancelLegs(b) ELSE <<>>) \o FlattenIfOpen(p),
            "after")

\* ------------------------------------------------------ offset calculator

\* sc.RoundToIncrement on the rational num / den: the nearest multiple of inc
\* (num >= 0).
RoundToIncrement(num, den, inc) ==
    inc * ((2 * num + den * inc) \div (2 * den * inc))

\* sc.RoundToTickSize on an integer price: the nearest multiple of tick.
RoundToTickSize(price, tick) ==
    tick * ((2 * price + tick) \div (2 * tick))

\* CalcOffset without the raise to one tick.
CalcOffset_NoFloor(R, frac, tick) == RoundToIncrement(R * frac, FracDen, tick)

\* calculatedXOffset: R times the fraction, rounded to the tick increment and
\* raised to one tick when below it.
CalcOffset(R, frac, tick) ==
    LET rounded == RoundToIncrement(R * frac, FracDen, tick)
    IN  IF rounded < tick THEN tick ELSE rounded

\* calculatedEntryOffset, calculatedStopOffset, calculatedTakeProfitOffset.
Offsets(R, fracs, tick) ==
    [entry |-> CalcOffset(R, fracs[1], tick),
     stop |-> CalcOffset(R, fracs[2], tick),
     target |-> CalcOffset(R, fracs[3], tick)]

\* The R value read from the volatility subgraph is unusable.
InvalidR(vol) == IF Len(vol) = 0 THEN TRUE ELSE vol[1] <= 0

\* ------------------------------------------------------------ STATE 1

RECURSIVE FloatStep(_)
\* The spacing of the float values around x >= 0: one raw unit below
\* 2^MantBits, doubling with every further binary digit.
FloatStep(x) == IF x < 2 ^ MantBits THEN 1 ELSE 2 * FloatStep(x \div 2)

\* The value of type float nearest to x (ties to the even significand).
ToFloat(x) ==
    LET a == IF x < 0 THEN 0 - x ELSE x
        st == FloatStep(a)
        q == a \div st
        r == a % st
        m == IF 2 * r < st THEN q
             ELSE IF 2 * r > st THEN q + 1
             ELSE IF q % 2 = 0 THEN q ELSE q + 1
    IN  IF x < 0 THEN 0 - m * st ELSE m * st

\* float price = sc.RoundToTickSize(<float expression>, sc.TickSize)
RoundedPrice(x, tick) == ToFloat(RoundToTickSize(ToFloat(x), tick))

\* LimitPrices without the second test of the buy limit against the sell limit.
LimitPrices_NoSecondCheck(close, entryOffset, tick) ==
    LET buy0 == RoundedPrice(close - entryOffset, tick)
        sell == RoundedPrice(close + entryOffset, tick)
        buy1 == IF buy0 >= sell THEN RoundedPrice(sell - tick, tick) ELSE buy0
    IN  <<[buy |-> buy1, sell |-> sell]>>

\* The limit prices of the two legs; <<>> when the buy limit cannot be put
\* below the sell limit.
LimitPrices(close, entryOffset, tick) ==
    LET buy0 == RoundedPrice(close - entryOffset, tick)
        sell == RoundedPrice(close + entryOffset, tick)
        buy1 == IF buy0 >= sell THEN RoundedPrice(sell - tick, tick) ELSE buy0
    IN  IF buy1 >= sell THEN <<>> ELSE <<[buy |-> buy1, sell |-> sell]>>

\* SubmitBracket with a refused submission leaving the bracket marked armed.
SubmitBracket_FailureLatches(b, in, n, accepted) ==
    LET entry == CalcOffset(in.vol[1], in.fracs[1], in.tick)
        prices == LimitPrices(in.close, entry, in.tick)
    IN  IF Len(prices) = 0
        THEN Outcome(b, <<>>, "s1Skip")
        ELSE IF accepted
        THEN [bot |-> [b EXCEPT !.buy = n + 1, !.sell = n + 2, !.armed = TRUE],
              calls |-> <<Call("submit", n + 1)>>,
              path |-> "s1Ok",
              sub |-> prices]
        ELSE Outcome([b EXCEPT !.buy = 0, !.sell = 0, !.armed = TRUE],
                     <<Call("submit", 0)>>, "s1Fail")

\* Flat and not armed: place the OCO bracket.  `accepted` is the host's
\* answer (sc.SubmitOCOOrder > 0) and `n` the number of orders in its list:
\* the legs get the next two ids.
SubmitBracket(b, in, n, accepted) ==
    LET entry == CalcOffset(in.vol[1], in.fracs[1], in.tick)
        prices == LimitPrices(in.close, entry, in.tick)
    IN  IF Len(prices) = 0
        THEN Outcome(b, <<>>, "s1Skip")
        ELSE IF accepted
        THEN [bot |-> [b EXCEPT !.buy = n + 1, !.sell = n + 2, !.armed = TRUE],
              calls |-> <<Call("submit", n + 1)>>,
              path |-> "s1Ok",
              sub |-> prices]
        ELSE Outcome([b EXCEPT !.buy = 0, !.sell = 0, !.armed = FALSE],
                     <<Call("submit", 0)>>, "s1Fail")

\* ------------------------------------------------------------ STATE 2

\* PollLeg with the Error status not taken for the end of the leg.
PollLeg_ErrorIgnored(ord, id) ==
    IF id # 0 /\ OrderFound(ord, id)
    THEN IF ord[id].status = "Filled" THEN "filled"
         ELSE IF ord[id].status = "Canceled" THEN "dead"
         ELSE "none"
    ELSE "none"

\* PollLeg with a leg the host does not find treated as canceled.
PollLeg_LostIsDead(ord, id) ==
    IF id # 0
    THEN IF ~OrderFound(ord, id) THEN "dead"
         ELSE IF ord[id].status = "Filled" THEN "filled"
         ELSE IF ord[id].status \in {"Canceled", "Error"} THEN "dead"
         ELSE "none"
    ELSE "none"

\* The poll of one parent leg: "filled", "dead" (canceled or error) or "none"
\* (id unset, order not found, or any other status).
PollLeg(ord, id) ==
    IF id # 0 /\ OrderFound(ord, id)
    THEN IF ord[id].status = "Filled" THEN "filled"
         ELSE IF ord[id].status \in {"Canceled", "Error"} THEN "dead"
         ELSE "none"
    ELSE "none"

\* EnterTrade without the reset of IsBracketArmed_Persist.
EnterTrade_StaysArmed(b, side, filledParentID) ==
    LET b1 == [b EXCEPT !.side = side, !.active = filledParentID]
    IN  IF side = SIDE_LONG THEN [b1 EXCEPT !.sell = 0] ELSE [b1 EXCEPT !.buy = 0]

\* EnterTrade clearing the id of the leg that filled instead of the other.
EnterTrade_ClearsFilledLeg(b, side, filledParentID) ==
    LET b1 == [b EXCEPT !.side = side, !.active = filledParentID, !.armed = FALSE]
    IN  IF side = SIDE_LONG THEN [b1 EXCEPT !.buy = 0] ELSE [b1 EXCEPT !.sell = 0]

\* The entry-filled block: side, active parent and the other leg's id.
EnterTrade(b, side, filledParentID) ==
    LET b1 == [b EXCEPT !.side = side, !.active = filledParentID, !.armed = FALSE]
    IN  IF side = SIDE_LONG THEN [b1 EXCEPT !.sell = 0] ELSE [b1 EXCEPT !.buy = 0]

\* PollEntryFill with the sell leg polled whether or not the buy leg filled,
\* the later fill overwriting the earlier.
PollEntryFill_SellOverrides(b, ord) ==
    LET buyPoll == PollLeg(ord, b.buy)
        b1 == IF buyPoll = "dead" THEN [b EXCEPT !.buy = 0] ELSE b
        sellPoll == PollLeg(ord, b1.sell)
        b2 == IF sellPoll = "dead" THEN [b1 EXCEPT !.sell = 0] ELSE b1
        calls == (IF b.buy # 0 THEN <<Call("getOrder", b.buy)>> ELSE <<>>)
                 \o (IF b1.sell # 0 THEN <<Call("getOrder", b1.sell)>> ELSE <<>>)
    IN  IF sellPoll = "filled"
        THEN Outcome(EnterTrade(b2, SIDE_SHORT, b1.sell), calls, "s2Fill")
        ELSE IF buyPoll = "filled"
        THEN Outcome(EnterTrade(b2, SIDE_LONG, b.buy), calls, "s2Fill")
        ELSE IF b2.buy = 0 /\ b2.sell = 0
        THEN Outcome([b2 EXCEPT !.armed = FALSE, !.active = 0], calls, "s2Dead")
        ELSE Outcome(b2, calls, "s2Wait")

\* PollEntryFill with a canceled or rejected leg also disarming the bracket.
PollEntryFill_DeadLegDisarms(b, ord) ==
    LET buyPoll == PollLeg(ord, b.buy)
        b1 == IF buyPoll = "dead" THEN [b EXCEPT !.buy = 0, !.armed = FALSE] ELSE b
        buyFilled == buyPoll = "filled"
        sellPoll == IF buyFilled THEN "none" ELSE PollLeg(ord, b1.sell)
        b2 == IF sellPoll = "dead" THEN [b1 EXCEPT !.sell = 0, !.armed = FALSE] ELSE b1
        calls == (IF b.buy # 0 THEN <<Call("getOrder", b.buy)>> ELSE <<>>)
                 \o (IF ~buyFilled /\ b1.sell # 0
                     THEN <<Call("getOrder", b1.sell)>> ELSE <<>>)
    IN  IF buyFilled
        THEN Outcome(EnterTrade(b2, SIDE_LONG, b.buy), calls, "s2Fill")
        ELSE IF sellPoll = "filled"
        THEN Outcome(EnterTrade(b2, SIDE_SHORT, b1.sell), calls, "s2Fill")
        ELSE IF b2.buy = 0 /\ b2.sell = 0
        THEN Outcome([b2 EXCEPT !.armed = FALSE, !.active = 0], calls, "s2Dead")
        ELSE Outcome(b2, calls, "s2Wait")

\* PollEntryFill with the dead bracket left armed.
PollEntryFill_DeadStaysArmed(b, ord) ==
    LET buyPoll == PollLeg(ord, b.buy)
        b1 == IF buyPoll = "dead" THEN [b EXCEPT !.buy = 0] ELSE b
        buyFilled == buyPoll = "filled"
        sellPoll == IF buyFilled THEN "none" ELSE PollLeg(ord, b1.sell)
        b2 == IF sellPoll = "dead" THEN [b1 EXCEPT !.sell = 0] ELSE b1
        calls == (IF b.buy # 0 THEN <<Call("getOrder", b.buy)>> ELSE <<>>)
                 \o (IF ~buyFilled /\ b1.sell # 0
                     THEN <<Call("getOrder", b1.sell)>> ELSE <<>>)
    IN  IF buyFilled
        THEN Outcome(EnterTrade(b2, SIDE_LONG, b.buy), calls, "s2Fill")
        ELSE IF sellPoll = "filled"
        THEN Outcome(EnterTrade(b2, SIDE_SHORT, b1.sell), calls, "s2Fill")
        ELSE IF b2.buy = 0 /\ b2.sell = 0
        THEN Outcome(b2, calls, "s2Dead")
        ELSE Outcome(b2, calls, "s2Wait")

\* Flat and armed: poll the buy leg, then the sell leg unless the buy leg
\* filled.
PollEntryFill(b, ord) ==
    LET buyPoll == PollLeg(ord, b.buy)
        b1 == IF buyPoll = "dead" THEN [b EXCEPT !.buy = 0] ELSE b
        buyFilled == buyPoll = "filled"
        sellPoll == IF buyFilled THEN "none" ELSE PollLeg(ord, b1.sell)
        b2 == IF sellPoll = "dead" THEN [b1 EXCEPT !.sell = 0] ELSE b1
        calls == (IF b.buy # 0 THEN <<Call("getOrder", b.buy)>> ELSE <<>>)
                 \o (IF ~buyFilled /\ b1.sell # 0
                     THEN <<Call("getOrder", b1.sell)>> ELSE <<>>)
    IN  IF buyFilled
        THEN Outcome(EnterTrade(b2, SIDE_LONG, b.buy), calls, "s2Fill")
        ELSE IF sellPoll = "filled"
        THEN Outcome(EnterTrade(b2, SIDE_SHORT, b1.sell), calls, "s2Fill")
        ELSE IF b2.buy = 0 /\ b2.sell = 0
        THEN Outcome([b2 EXCEPT !.armed = FALSE, !.active = 0], calls, "s2Dead")
        ELSE Outcome(b2, calls, "s2Wait")

\* ------------------------------------------------------------ STATE 3

\* FirstResolvedChild with only the Filled status ending the scan.
FirstResolvedChild_FilledOnly(ord, active, asc) ==
    LET Test(id) == ord[id].parent = active /\ ord[id].status = "Filled"
        hits == SelectSeq(EnumerateOrders(ord, asc), Test)
    IN  IF Len(hits) = 0 THEN <<>> ELSE <<hits[1]>>

\* The while loop over the order list: the first order in enumeration order
\* that is a child of the active parent and is Filled, Canceled or in Error
\* (the loop breaks there); <<>> when it runs to the end.
FirstResolvedChild(ord, active, asc) ==
    LET Test(id) == /\ ord[id].parent = active
                    /\ ord[id].status \in {"Filled", "Canceled", "Error"}
        hits == SelectSeq(EnumerateOrders(ord, asc), Test)
    IN  IF Len(hits) = 0 THEN <<>> ELSE <<hits[1]>>

\* PollExit with sc.FlattenPosition called on the normal exit too.
PollExit_FlattensOnExit(b, ord, p, asc) ==
    IF b.active = 0
    THEN Outcome([b EXCEPT !.side = SIDE_FLAT], FlattenIfOpen(p), "s3Inconsistent")
    ELSE LET hit == FirstResolvedChild(ord, b.active, asc)
         IN  IF Len(hit) = 0
             THEN Outcome(b, <<Call("enumerate", 0)>>, "s3Wait")
             ELSE IF ord[hit[1]].status = "Filled"
             THEN Outcome(ZeroBot, <<Call("enumerate", 0), Call("flatten", 0)>>,
                          "s3Exit")
             ELSE Outcome(ZeroBot, <<Call("enumerate", 0)>> \o FlattenIfOpen(p),
                          "s3Safety")

\* PollExit with the safety exit resetting the state without the flatten.
PollExit_SafetyNoFlatten(b, ord, p, asc) ==
    IF b.active = 0
    THEN Outcome([b EXCEPT !.side = SIDE_FLAT], FlattenIfOpen(p), "s3Inconsistent")
    ELSE LET hit == FirstResolvedChild(ord, b.active, asc)
         IN  IF Len(hit) = 0
             THEN Outcome(b, <<Call("enumerate", 0)>>, "s3Wait")
             ELSE Outcome(ZeroBot, <<Call("enumerate", 0)>>,
                          IF ord[hit[1]].status = "Filled" THEN "s3Exit"
                          ELSE "s3Safety")

\* PollExit with the inconsistency path resetting the side without the flatten.
PollExit_InconsistentNoFlatten(b, ord, p, asc) ==
    IF b.active = 0
    THEN Outcome([b EXCEPT !.side = SIDE_FLAT], <<Call("getPosition", 0)>>,
                 "s3Inconsistent")
    ELSE LET hit == FirstResolvedChild(ord, b.active, asc)
         IN  IF Len(hit) = 0
             THEN Outcome(b, <<Call("enumerate", 0)>>, "s3Wait")
             ELSE IF ord[hit[1]].status = "Filled"
             THEN Outcome(ZeroBot, <<Call("enumerate", 0)>>, "s3Exit")
             ELSE Outcome(ZeroBot, <<Call("enumerate", 0)>> \o FlattenIfOpen(p),
                          "s3Safety")

\* PollExit with the reset leaving the active parent id in place.
PollExit_ExitKeepsParent(b, ord, p, asc) ==
    IF b.active = 0
    THEN Outcome([b EXCEPT !.side = SIDE_FLAT], FlattenIfOpen(p), "s3Inconsistent")
    ELSE LET hit == FirstResolvedChild(ord, b.active, asc)
             reset == [ZeroBot EXCEPT !.active = b.active]
         IN  IF Len(hit) = 0
             THEN Outcome(b, <<Call("enumerate", 0)>>, "s3Wait")
             ELSE IF ord[hit[1]].status = "Filled"
             THEN Outcome(reset, <<Call("enumerate", 0)>>, "s3Exit")
             ELSE Outcome(reset, <<Call("enumerate", 0)>> \o FlattenIfOpen(p),
                          "s3Safety")

\* In a trade: poll the attached orders of the filled parent for the exit.
PollExit(b, ord, p, asc) ==
    IF b.active = 0
    THEN Outcome([b EXCEPT !.side = SIDE_FLAT], FlattenIfOpen(p), "s3Inconsistent")
    ELSE LET hit == FirstResolvedChild(ord, b.active, asc)
         IN  IF Len(hit) = 0
             THEN Outcome(b, <<Call("enumerate", 0)>>, "s3Wait")
             ELSE IF ord[hit[1]].status = "Filled"
             THEN Outcome(ZeroBot, <<Call("enumerate", 0)>>, "s3Exit")
             ELSE Outcome(ZeroBot, <<Call("enumerate", 0)>> \o FlattenIfOpen(p),
                          "s3Safety")

\* ------------------------------------------------------ main trading logic

\* StateMachine with STATE 1 entered whenever the study is flat, armed or not.
StateMachine_SubmitsWhenArmed(b, ord, p, in) ==
    IF b.side = SIDE_FLAT
    THEN SubmitBracket(b, in, NumOrders(ord),
                       in.submitOk /\ NumOrders(ord) + 6 <= MaxOrders)
    ELSE PollExit(b, ord, p, in.asc)

\* StateMachine with STATE 1 run in the same call after a dead bracket.
StateMachine_DeadThenSubmits(b, ord, p, in) ==
    IF b.side = SIDE_FLAT /\ ~b.armed
    THEN SubmitBracket(b, in, NumOrders(ord),
                       in.submitOk /\ NumOrders(ord) + 6 <= MaxOrders)
    ELSE IF b.side = SIDE_FLAT /\ b.armed
    THEN LET o == PollEntryFill(b, ord)
             o1 == SubmitBracket(o.bot, in, NumOrders(ord),
                                 in.submitOk /\ NumOrders(ord) + 6 <= MaxOrders)
         IN  IF o.path = "s2Dead"
             THEN [o1 EXCEPT !.calls = o.calls \o o1.calls, !.path = "s2Dead"]
             ELSE o
    ELSE PollExit(b, ord, p, in.asc)

\* The state machine: exactly one of the three blocks, chosen from the
\* persistent ints as read at its top.
StateMachine(b, ord, p, in) ==
    IF b.side = SIDE_FLAT /\ ~b.armed
    THEN SubmitBracket(b, in, NumOrders(ord),
                       in.submitOk /\ NumOrders(ord) + 6 <= MaxOrders)
    ELSE IF b.side = SIDE_FLAT /\ b.armed
    THEN PollEntryFill(b, ord)
    ELSE PollExit(b, ord, p, in.asc)

\* MainLogic with the time gate ahead of the enable switch.
MainLogic_GateBeforeEnable(b, ord, p, in) ==
    IF in.tick <= 0 THEN Outcome(b, <<>>, "badTick")
    ELSE IF in.useWindow /\ in.time < in.start THEN GateBeforeWindow(b)
    ELSE IF in.useWindow /\ in.time >= in.stop THEN GateAfterWindow(b, p)
    ELSE IF ~in.enabled THEN Outcome(b, <<>>, "disabled")
    ELSE IF InvalidR(in.vol) THEN Outcome(b, <<>>, "badR")
    ELSE StateMachine(b, ord, p, in)

\* MainLogic with a window whose start is not before its stop taken to span
\* midnight: inside from the start time on and before the stop time.
MainLogic_WindowSpansMidnight(b, ord, p, in) ==
    LET wraps == in.start >= in.stop
        inside == in.time >= in.start \/ in.time < in.stop
    IN  IF ~in.enabled THEN Outcome(b, <<>>, "disabled")
        ELSE IF in.tick <= 0 THEN Outcome(b, <<>>, "badTick")
        ELSE IF in.useWindow /\ wraps /\ ~inside THEN GateAfterWindow(b, p)
        ELSE IF in.useWindow /\ ~wraps /\ in.time < in.start THEN GateBeforeWindow(b)
        ELSE IF in.useWindow /\ ~wraps /\ in.time >= in.stop THEN GateAfterWindow(b, p)
        ELSE IF InvalidR(in.vol) THEN Outcome(b, <<>>, "badR")
        ELSE StateMachine(b, ord, p, in)

\* MainLogic without the time gate.
MainLogic_NoGate(b, ord, p, in) ==
    IF ~in.enabled THEN Outcome(b, <<>>, "disabled")
    ELSE IF in.tick <= 0 THEN Outcome(b, <<>>, "badTick")
    ELSE IF InvalidR(in.vol) THEN Outcome(b, <<>>, "badR")
    ELSE StateMachine(b, ord, p, in)

\* Everything after the last-bar test: the enable switch, the tick size
\* check, the optional time gate, the R check, then the state machine.
MainLogic(b, ord, p, in) ==
    IF ~in.enabled THEN Outcome(b, <<>>, "disabled")
    ELSE IF in.tick <= 0 THEN Outcome(b, <<>>, "badTick")
    ELSE IF in.useWindow /\ in.time < in.start THEN GateBeforeWindow(b)
    ELSE IF in.useWindow /\ in.time >= in.stop THEN GateAfterWindow(b, p)
    ELSE IF InvalidR(in.vol) THEN Outcome(b, <<>>, "badR")
    ELSE StateMachine(b, ord, p, in)

\* -------------------------------------------------------------- the host

\* The six orders the host creates for an accepted OCO bracket: the buy and
\* sell limit legs, then each leg's attached stop and target.
NewBracket(ord, sub) ==
    LET n == NumOrders(ord)
        Leg(price, dir) ==
            [status |-> "Open", parent |-> 0, type |-> "Limit", price |-> price, dir |-> dir]
        Child(parent, type, dir) ==
            [status |-> "Open", parent |-> parent, type |-> type, price |-> 0, dir |-> dir]
    IN  [i \in OrderIds |->
            IF i = n + 1 THEN Leg(sub.buy, 1)
            ELSE IF i = n + 2 THEN Leg(sub.sell, -1)
            ELSE IF i = n + 3 THEN Child(n + 1, "Stop", -1)
            ELSE IF i = n + 4 THEN Child(n + 1, "Limit", -1)
            ELSE IF i = n + 5 THEN Child(n + 2, "Stop", 1)
            ELSE IF i = n + 6 THEN Child(n + 2, "Limit", 1)
            ELSE ord[i]]

\* The ids of the cancel calls in a call sequence.
CancelIds(calls) == {calls[k].id : k \in {j \in 1..Len(calls) : calls[j].op = "cancel"}}

HasCall(calls, op) == \E k \in 1..Len(calls) : calls[k].op = op

\* The host takes the calls of one run: an accepted bracket enters the order
\* list at once; cancel and flatten requests are only queued.
HostTakes(out, kind, pre, in) ==
    /\ bot' = out.bot
    /\ orders' = IF Len(out.sub) = 0 THEN orders ELSE NewBracket(orders, out.sub[1])
    /\ pendingCancel' =
           pendingCancel \cup {id \in CancelIds(out.calls) : orders[id].status = "Open"}
    /\ pendingFlatten' = (pendingFlatten \/ HasCall(out.calls, "flatten"))
    /\ pos' = pos
    /\ last' = [kind |-> kind, path |-> out.path, pre |-> pre, calls |-> out.calls,
                enabled |-> in.enabled,
                win |-> [use |-> in.useWindow, time |-> in.time,
                         start |-> in.start, stop |-> in.stop]]
    /\ UNCHANGED <<prev, calc>>

\* Inputs the paths that return before the time gate never read.
Unread == [enabled |-> TRUE, tick |-> TickSz, useWindow |-> FALSE, time |-> 0,
           start |-> 0, stop |-> 0, vol |-> <<>>, fracs |-> <<1, 1, 1>>,
           close |-> 0, submitOk |-> FALSE, asc |-> TRUE]

\* The persistent ints as the main trading logic of a call finds them: after
\* the bootstrap when the call is also the first of a full recalculation (a
\* chart of one bar), as they are otherwise.
AtLastBar(full, asc) == IF full THEN Bootstrap(bot, orders, pos, asc) ELSE bot

\* The enumeration order is read by the bootstrap and by STATE 3 only.
ReadsOrder(full, asc) == asc \/ full \/ bot.side # SIDE_FLAT

\* The paths through the three blocks of the state machine.
StatePaths ==
    {"s1Skip", "s1Ok", "s1Fail", "s2Fill", "s2Dead", "s2Wait",
     "s3Inconsistent", "s3Wait", "s3Exit", "s3Safety"}

\* The host is between two calls of the study function.
Idle == last.kind = "none"

\* One call on the last bar with inputs `in`.
Run(in, full) ==
    HostTakes(MainLogic(AtLastBar(full, in.asc), orders, pos, in),
              IF full THEN "recalcTick" ELSE "tick", AtLastBar(full, in.asc), in)

Init ==
    /\ bot = ZeroBot
    /\ orders = [i \in OrderIds |-> NoOrder]
    /\ pos = 0
    /\ pendingCancel = {}
    /\ pendingFlatten = FALSE
    /\ last = NoLast
    /\ prev = "none"
    /\ calc = NoCalc

\* A call with sc.IsFullRecalculation, sc.Index == 0 and more than one bar:
\* the bootstrap runs and the call returns at the last-bar test.
Recalc ==
    /\ Idle
    /\ \E asc \in BOOLEAN :
        /\ bot' = Bootstrap(bot, orders, pos, asc)
        /\ last' = [NoLast EXCEPT !.kind = "recalc", !.pre = bot]
        /\ UNCHANGED <<orders, pos, pendingCancel, pendingFlatten, prev, calc>>

\* A last-bar call with "Enable Trading" off, the trading window off or the
\* bar's time past its stop time.
EvaluateDisabled ==
    /\ Idle
    /\ \E full \in BOOLEAN, asc \in BOOLEAN, w \in DisabledWindows :
        /\ asc \/ full
        /\ Run([Unread EXCEPT !.enabled = FALSE, !.useWindow = w.use,
                              !.time = w.time, !.start = w.start, !.stop = w.stop,
                              !.vol = <<4>>, !.submitOk = TRUE, !.asc = asc], full)

\* A last-bar call with trading enabled and sc.TickSize <= 0.
EvaluateBadTick ==
    /\ Idle
    /\ \E full \in BOOLEAN, asc \in BOOLEAN :
        /\ asc \/ full
        /\ Run([Unread EXCEPT !.tick = 0, !.asc = asc], full)

\* A last-bar call with the trading window in use and the bar's time outside
\* it.
EvaluateOutsideWindow ==
    /\ Idle
    /\ \E full \in BOOLEAN, asc \in BOOLEAN, t \in Times, s \in Times, e \in Times :
        /\ asc \/ full
        /\ t < s \/ t >= e
        /\ Run([Unread EXCEPT !.useWindow = TRUE, !.time = t, !.start = s,
                              !.stop = e, !.vol = <<4>>, !.submitOk = TRUE,
                              !.asc = asc], full)

\* A last-bar call that passes the time gate (window off, or time inside it)
\* and finds no usable R value.
EvaluateInvalidR ==
    /\ Idle
    /\ \E full \in BOOLEAN, asc \in BOOLEAN, w \in WindowInputs, vol \in VolInputs :
        /\ asc \/ full
        /\ InvalidR(vol)
        /\ Run([Unread EXCEPT !.useWindow = w.use, !.time = w.time, !.start = w.start,
                              !.stop = w.stop, !.vol = vol, !.asc = asc], full)

\* A last-bar call that passes the time gate with a usable R value and finds
\* the study flat and not armed: STATE 1 reads the fractions, the close and
\* the host's answer to the submission.
EvaluateFlat ==
    /\ Idle
    /\ \E full \in BOOLEAN, asc \in BOOLEAN, w \in WindowInputs, vol \in VolInputs,
        fr \in FracInputs, close \in Closes, ok \in BOOLEAN :
        /\ asc \/ full
        /\ ~InvalidR(vol)
        /\ AtLastBar(full, asc).side = SIDE_FLAT /\ ~AtLastBar(full, asc).armed
        /\ Run([enabled |-> TRUE, tick |-> TickSz, useWindow |-> w.use, time |-> w.time,
                start |-> w.start, stop |-> w.stop, vol |-> vol, fracs |-> fr,
                close |-> close, submitOk |-> ok, asc |-> asc], full)

\* A last-bar call that passes the time gate with a usable R value and finds
\* the study armed or in a trade: STATE 2 and STATE 3 read the order list and
\* the position only.
EvaluatePoll ==
    /\ Idle
    /\ \E full \in BOOLEAN, asc \in BOOLEAN, w \in WindowInputs :
        /\ ReadsOrder(full, asc)
        /\ ~(AtLastBar(full, asc).side = SIDE_FLAT /\ ~AtLastBar(full, asc).armed)
        /\ Run([Unread EXCEPT !.useWindow = w.use, !.time = w.time, !.start = w.start,
                              !.stop = w.stop, !.vol = <<4>>, !.asc = asc], full)

\* The call has returned; the record of what it did is dropped.
Return ==
    /\ ~Idle
    /\ last' = NoLast
    /\ UNCHANGED <<bot, orders, pos, pendingCancel, pendingFlatten, prev, calc>>

\* The ids sc.GetOrderByOrderID was called with and did not find.
NotFound ==
    {last.calls[k].id : k \in {j \in 1..Len(last.calls) :
        /\ last.calls[j].op = "getOrder"
        /\ ~OrderFound(orders, last.calls[j].id)}}

\* The call has returned; of the record of what it did the path is kept when
\* it was the stop-time path, the dead-bracket path or the path of a refused
\* submission, and the legs are kept that STATE 2 queried and the host did
\* not find.
ReturnKeepingPath ==
    /\ ~Idle
    /\ last' = NoLast
    /\ prev' = (IF last.path \in {"after", "s2Dead", "s1Fail"} THEN last.path
                 ELSE IF NotFound = {} THEN "none"
                 ELSE IF last.pre.buy \notin NotFound THEN "lostSell"
                 ELSE IF last.pre.sell \notin NotFound THEN "lostBuy"
                 ELSE "lostBoth")
    /\ UNCHANGED <<bot, orders, pos, pendingCancel, pendingFlatten, calc>>

\* ------------------------------------------------------- the environment

\* Canceling or rejecting a parent leg takes its still-open attached orders
\* with it.
CloseOrder(ord, id, status) ==
    [i \in OrderIds |->
        IF i = id THEN [ord[i] EXCEPT !.status = status]
        ELSE IF ord[i].parent = id /\ ord[i].status = "Open"
        THEN [ord[i] EXCEPT !.status = "Canceled"]
        ELSE ord[i]]

\* An attached order works only once its parent has filled.
Working(ord, id) ==
    /\ ord[id].status = "Open"
    /\ ord[id].parent # 0 => ord[ord[id].parent].status = "Filled"

\* The market fills a working order.
BrokerFill ==
    /\ Idle
    /\ \E id \in OrderIds :
        /\ Working(orders, id)
        /\ pos + orders[id].dir \in -MaxPos..MaxPos
        /\ orders' = [orders EXCEPT ![id].status = "Filled"]
        /\ pos' = pos + orders[id].dir
        /\ pendingCancel' = pendingCancel \ {id}
        /\ UNCHANGED <<bot, pendingFlatten, last, prev, calc>>

\* A working order is canceled: by the user, by the OCO group after the other
\* leg filled, or by a queued cancel request of the study.
BrokerCancel ==
    /\ Idle
    /\ \E id \in OrderIds :
        /\ Working(orders, id)
        /\ orders' = CloseOrder(orders, id, "Canceled")
        /\ pendingCancel' = pendingCancel \ {id}
        /\ UNCHANGED <<bot, pos, pendingFlatten, last, prev, calc>>

\* A working order is rejected.
BrokerError ==
    /\ Idle
    /\ \E id \in OrderIds :
        /\ Working(orders, id)
        /\ orders' = CloseOrder(orders, id, "Error")
        /\ pendingCancel' = pendingCancel \ {id}
        /\ UNCHANGED <<bot, pos, pendingFlatten, last, prev, calc>>

\* The queued flatten request is executed: the position goes to zero and the
\* working attached orders are canceled.
BrokerFlatten ==
    /\ Idle
    /\ pendingFlatten
    /\ pos' = 0
    /\ orders' = [i \in OrderIds |->
                IF orders[i].parent # 0 /\ Working(orders, i)
                THEN [orders[i] EXCEPT !.status = "Canceled"]
                ELSE orders[i]]
    /\ pendingFlatten' = FALSE
    /\ UNCHANGED <<bot, pendingCancel, last, prev, calc>>

Next ==
    \/ Recalc
    \/ EvaluateDisabled
    \/ EvaluateBadTick
    \/ EvaluateOutsideWindow
    \/ EvaluateInvalidR
    \/ EvaluateFlat
    \/ EvaluatePoll
    \/ Return
    \/ BrokerFill
    \/ BrokerCancel
    \/ BrokerError
    \/ BrokerFlatten

Spec == Init /\ [][Next]_vars

\* The same calls and host steps, with the path of the previous call kept.
NextSeq ==
    \/ Recalc
    \/ EvaluateDisabled
    \/ EvaluateBadTick
    \/ EvaluateOutsideWindow
    \/ EvaluateInvalidR
    \/ EvaluateFlat
    \/ EvaluatePoll
    \/ ReturnKeepingPath
    \/ BrokerFill
    \/ BrokerCancel
    \/ BrokerError
    \/ BrokerFlatten

SpecSeq == Init /\ [][NextSeq]_vars

\* The call has returned; kept is whether a bootstrap has found the position
\* open and no call has reached the state machine since ("restart"), and
\* whether the stop-time path has run in between ("restartClosed").
ReturnKeepingRestart ==
    /\ ~Idle
    /\ last' = NoLast
    /\ prev' = (IF last.path \in StatePaths THEN "none"
                 ELSE IF last.kind \in {"recalc", "recalcTick"}
                 THEN (IF pos = 0 THEN "none"
                       ELSE IF last.path = "after" THEN "restartClosed"
                       ELSE "restart")
                 ELSE IF prev = "none" THEN "none"
                 ELSE IF last.path = "after" THEN "restartClosed"
                 ELSE prev)
    /\ UNCHANGED <<bot, orders, pos, pendingCancel, pendingFlatten, calc>>

\* The same calls and host steps, with the restart in a trade kept.
NextRestart ==
    \/ Recalc
    \/ EvaluateDisabled
    \/ EvaluateBadTick
    \/ EvaluateOutsideWindow
    \/ EvaluateInvalidR
    \/ EvaluateFlat
    \/ EvaluatePoll
    \/ ReturnKeepingRestart
    \/ BrokerFill
    \/ BrokerCancel
    \/ BrokerError
    \/ BrokerFlatten

SpecRestart == Init /\ [][NextRestart]_vars

\* ------------------------------------------- the offset calculation alone

\* Largest R value, in raw price units.
MaxR == 6
\* Largest numerator of a fraction (over FracDen).
MaxNum == 3
\* Largest tick increment, in raw price units.
MaxTick == 3
\* The closes STATE 1 is run on: two small ones, and two at which the float
\* values are spaced wider than the offsets.
CalcCloses == {10, 11, 2 ^ (MantBits + 1), 2 ^ (MantBits + 2)}

\* Any valid R, any three positive fractions, any valid tick increment.
InitCalc ==
    /\ bot = ZeroBot
    /\ orders = [i \in OrderIds |-> NoOrder]
    /\ pos = 0
    /\ pendingCancel = {}
    /\ pendingFlatten = FALSE
    /\ last = NoLast
    /\ prev = "none"
    /\ calc \in {[NoCalc EXCEPT !.R = r, !.fracs = <<f1, f2, f3>>, !.tick = t] :
                    r \in 1..MaxR, f1 \in 1..MaxNum, f2 \in 1..MaxNum,
                    f3 \in 1..MaxNum, t \in 1..MaxTick}

\* The three offsets are computed from the inputs.
ComputeOffsets ==
    /\ ~calc.done
    /\ LET o == Offsets(calc.R, calc.fracs, calc.tick)
       IN  calc' = [calc EXCEPT !.done = TRUE, !.entry = o.entry,
                                !.stop = o.stop, !.target = o.target]
    /\ UNCHANGED <<bot, orders, pos, pendingCancel, pendingFlatten, last, prev>>

\* STATE 1 on the inputs of the calculation, a close and the host's answer.
PlaceBracket ==
    /\ calc.done
    /\ calc.path = "none"
    /\ \E close \in CalcCloses, ok \in BOOLEAN :
        LET in == [Unread EXCEPT !.tick = calc.tick, !.vol = <<calc.R>>,
                                 !.fracs = calc.fracs, !.close = close,
                                 !.submitOk = ok]
            out == SubmitBracket(bot, in, 0, ok)
        IN  /\ bot' = out.bot
            /\ calc' = [calc EXCEPT !.close = close, !.path = out.path,
                                    !.sub = out.sub, !.calls = Len(out.calls)]
    /\ UNCHANGED <<orders, pos, pendingCancel, pendingFlatten, last, prev>>

NextCalc == ComputeOffsets \/ PlaceBracket

SpecCalc == InitCalc /\ [][NextCalc]_vars

\* ------------------------------ an armed bracket with legs the host lost

\* One bracket in the host's order list.
PollBook ==
    NewBracket([i \in OrderIds |-> NoOrder], [buy |-> 8, sell |-> 12])

\* Ids of entry legs the study still tracks and the host's order list no
\* longer holds.
LostBuy == NumOrders(PollBook) + 1
LostSell == NumOrders(PollBook) + 2

\* The persistent ints of an armed bracket: each leg is in the list, lost, or
\* already invalidated (not both).
PollBots ==
    {[buy |-> b, sell |-> s, active |-> 0, side |-> SIDE_FLAT, armed |-> TRUE] :
        b \in {0, 1, LostBuy}, s \in {0, 2, LostSell}}
        \ {[buy |-> 0, sell |-> 0, active |-> 0, side |-> SIDE_FLAT, armed |-> TRUE]}

InitPoll ==
    /\ bot \in PollBots
    /\ orders = PollBook
    /\ pos = 0
    /\ pendingCancel = {}
    /\ pendingFlatten = FALSE
    /\ last = NoLast
    /\ prev = "none"
    /\ calc = NoCalc

NextPoll ==
    \/ EvaluatePoll
    \/ ReturnKeepingPath
    \/ BrokerFill
    \/ BrokerCancel
    \/ BrokerError

SpecPoll == InitPoll /\ [][NextPoll]_vars

\* ------------------------------------------- the life of one armed bracket

\* The host has just accepted a bracket: both legs tracked, the bracket armed.
InitLive ==
    /\ bot = [buy |-> 1, sell |-> 2, active |-> 0, side |-> SIDE_FLAT, armed |-> TRUE]
    /\ orders = PollBook
    /\ pos = 0
    /\ pendingCancel = {}
    /\ pendingFlatten = FALSE
    /\ last = NoLast
    /\ prev = "none"
    /\ calc = NoCalc

\* The calls with trading enabled and a valid tick size that find the study
\* armed or in a trade, and the host steps.
NextLive ==
    \/ EvaluateOutsideWindow
    \/ EvaluateInvalidR
    \/ EvaluatePoll
    \/ Return
    \/ BrokerFill
    \/ BrokerCancel
    \/ BrokerError
    \/ BrokerFlatten

\* The host's scheduling: every call returns, and calls that pass the
\* start-time test and the R check while the study is armed or in a trade
\* keep coming.
SpecLive ==
    InitLive /\ [][NextLive]_vars /\ WF_vars(Return) /\ SF_vars(EvaluatePoll)

\* ------------------------------------------- the bootstrap on any order list

\* Most top-level orders in an order list the bootstrap is run on.
MaxTops == 3

\* A top-level order as the bootstrap reads it, and how many orders name it
\* as their parent: a candidate, or an order that fails one of the tests.
TopOrders ==
    {t \in [status : {"Open", "Canceled"}, type : {"Limit", "Stop"},
            price : {8, 12}, kids : 1..3] :
        t.status = "Open" \/ t.type = "Limit"}

RECURSIVE KidsBefore(_, _)
\* Attached orders of the top-level orders before the k-th.
KidsBefore(tops, k) ==
    IF k = 1 THEN 0 ELSE KidsBefore(tops, k - 1) + tops[k - 1].kids

\* Orders in the list made of `tops`: the top-level orders and their kids.
BookSize(tops) == Len(tops) + KidsBefore(tops, Len(tops) + 1)

\* The order list made of `tops`: the top-level orders take the first ids,
\* their attached orders the next ones.
BootBook(tops) ==
    LET m == Len(tops)
        ParentOf(i) ==
            CHOOSE k \in 1..m :
                /\ KidsBefore(tops, k) < i - m
                /\ i - m <= KidsBefore(tops, k) + tops[k].kids
    IN  [i \in OrderIds |->
            IF i <= m
            THEN [status |-> tops[i].status, parent |-> 0, type |-> tops[i].type,
                  price |-> tops[i].price, dir |-> 1]
            ELSE IF i <= BookSize(tops)
            THEN [status |-> "Open", parent |-> ParentOf(i), type |-> "Stop",
                  price |-> 0, dir |-> -1]
            ELSE NoOrder]

\* The order lists the host can hold.
BootBooks ==
    {BootBook(tops) : tops \in
        {t \in UNION {[1..m -> TopOrders] : m \in 0..MaxTops} :
            BookSize(t) <= MaxOrders}}

\* Persistent ints a previous run can have left: never run, armed, in a trade.
BootBots ==
    {ZeroBot,
     [buy |-> 1, sell |-> 2, active |-> 0, side |-> SIDE_FLAT, armed |-> TRUE],
     [buy |-> 0, sell |-> 2, active |-> 2, side |-> SIDE_SHORT, armed |-> FALSE]}

\* The study is loaded on a chart whose account holds any order list and any
\* position.
InitBoot ==
    /\ bot \in BootBots
    /\ orders \in BootBooks
    /\ pos \in -1..1
    /\ pendingCancel = {}
    /\ pendingFlatten = FALSE
    /\ last = NoLast
    /\ prev = "none"
    /\ calc = NoCalc

NextBoot == Recalc \/ Return

SpecBoot == InitBoot /\ [][NextBoot]_vars

\* ================================================================ claims

\* The last call ran the main trading logic.
IsTick == last.kind \in {"tick", "recalcTick"}

\* The last call reached STATE 2 (flat and armed at the dispatch).
InState2 == IsTick /\ last.path \in {"s2Fill", "s2Dead", "s2Wait"}

\* The leg `id` tracked before the call reports Filled.
ReportsFilled(id) == id # 0 /\ orders[id].status = "Filled"

\* C1: in every reachable state, between calls and at the end of every call
\* (bootstrap or tick), the bracket is not armed while the trade side is
\* Long or Short.
C1_ArmedExcludesInTrade == ~(bot.armed /\ bot.side # SIDE_FLAT)

\* C1 witness: a tick that found the armed bracket's leg filled and entered
\* the trade.
C1_Witness ==
    /\ InState2
    /\ last.pre.armed
    /\ bot.side # SIDE_FLAT
    /\ ~bot.armed

\* C2: a call submits a bracket only if its main logic started flat and not
\* armed, and when the host accepts the submission (a positive id) the call
\* ends with both leg ids nonzero and the bracket armed.
C2_SubmitOnlyWhenFlatUnarmed ==
    IsTick =>
        \A k \in 1..Len(last.calls) :
            last.calls[k].op = "submit" =>
                /\ last.pre.side = SIDE_FLAT
                /\ ~last.pre.armed
                /\ last.calls[k].id > 0 =>
                       bot.buy # 0 /\ bot.sell # 0 /\ bot.armed

\* C2 witness: an accepted submission.
C2_Witness ==
    /\ IsTick
    /\ \E k \in 1..Len(last.calls) :
           last.calls[k].op = "submit" /\ last.calls[k].id > 0
    /\ bot.armed

\* C9: in a STATE 2 tick where both tracked legs report Filled, the call ends
\* Long with the buy leg as the active parent, and never queried the sell leg.
C9_BuyLegWins ==
    (InState2 /\ ReportsFilled(last.pre.buy) /\ ReportsFilled(last.pre.sell)) =>
        /\ bot.side = SIDE_LONG
        /\ bot.active = last.pre.buy
        /\ \A k \in 1..Len(last.calls) :
               ~(last.calls[k].op = "getOrder" /\ last.calls[k].id = last.pre.sell)

\* C9 witness: a STATE 2 tick with both legs filled.
C9_Witness ==
    /\ InState2
    /\ ReportsFilled(last.pre.buy)
    /\ ReportsFilled(last.pre.sell)
    /\ bot.side = SIDE_LONG

\* C10: a STATE 2 tick that observes the buy leg Filled ends Long, active
\* parent the buy leg, not armed, sell id 0; one that observes the sell leg
\* Filled and the buy leg not Filled ends Short, active parent the sell leg,
\* not armed, buy id 0.
C10_EntryFillTransition ==
    InState2 =>
        /\ ReportsFilled(last.pre.buy) =>
               /\ bot.side = SIDE_LONG
               /\ bot.active = last.pre.buy
               /\ ~bot.armed
               /\ bot.sell = 0
        /\ (ReportsFilled(last.pre.sell) /\ ~ReportsFilled(last.pre.buy)) =>
               /\ bot.side = SIDE_SHORT
               /\ bot.active = last.pre.sell
               /\ ~bot.armed
               /\ bot.buy = 0

\* C10 witness: the sell leg filled while the buy leg was still open.
C10_Witness ==
    /\ InState2
    /\ ReportsFilled(last.pre.sell)
    /\ last.pre.buy # 0
    /\ orders[last.pre.buy].status = "Open"
    /\ bot.side = SIDE_SHORT

\* C3: the study never submits a bracket while an entry leg of an earlier
\* bracket is still Open in the host's order list, nor while the position is
\* open.
C3_NeverTwoBrackets ==
    IsTick =>
        \A k \in 1..Len(last.calls) :
            last.calls[k].op = "submit" =>
                /\ pos = 0
                /\ \A id \in OrderIds :
                       (orders[id].parent = 0 /\ orders[id].status = "Open") =>
                           (last.calls[k].id > 0 /\ id >= last.calls[k].id)

\* C4: a tick with trading enabled and a valid tick size that finds the study
\* in a trade, the position open and an attached order of the active parent
\* Canceled or in Error always calls sc.FlattenPosition.
C4_UnprotectedAlwaysFlattens ==
    (/\ IsTick
     /\ last.path \notin {"disabled", "badTick"}
     /\ last.pre.side # SIDE_FLAT
     /\ last.pre.active # 0
     /\ pos # 0
     /\ \E c \in OrderIds :
            /\ orders[c].parent = last.pre.active
            /\ orders[c].status \in {"Canceled", "Error"})
        => HasCall(last.calls, "flatten")

\* C5: in every reachable state, the state the bootstrap leaves included, a
\* trade side of Long or Short comes with the bracket not armed and a nonzero
\* active filled parent id.
C5_InTradeHasActiveParent ==
    bot.side # SIDE_FLAT => (~bot.armed /\ bot.active # 0)

\* The time-gate inputs of a call: window off, inside, before start, at stop.
GateInputs ==
    WindowInputs \cup {[use |-> TRUE, time |-> 0, start |-> 1, stop |-> 1],
                       [use |-> TRUE, time |-> 1, start |-> 0, stop |-> 1]}

\* Every input a last-bar call can read.
TickInputs ==
    {[enabled |-> en, tick |-> tk, useWindow |-> w.use, time |-> w.time,
      start |-> w.start, stop |-> w.stop, vol |-> vol, fracs |-> fr,
      close |-> close, submitOk |-> ok, asc |-> asc] :
        en \in BOOLEAN, tk \in {0, TickSz}, w \in GateInputs, vol \in VolInputs,
        fr \in FracInputs, close \in Closes, ok \in BOOLEAN, asc \in BOOLEAN}

\* The order `id` is open, top-level, a limit order, and exactly two orders
\* name it as their parent.
HasBracketShape(id) ==
    /\ orders[id].status = "Open"
    /\ orders[id].parent = 0
    /\ orders[id].type = "Limit"
    /\ Cardinality({c \in OrderIds : orders[c].parent = id}) = 2

\* The orders of bracket shape in the order list.
Shaped == {id \in OrderIds : HasBracketShape(id)}

\* The last call ran the bootstrap on the order list as it is now.
Bootstrapped ==
    \/ last.kind = "recalc"
    \/ last.kind = "recalcTick" /\ last.path # "s1Ok"

\* The persistent ints the bootstrap of the last call left.
AfterBootstrap == IF last.kind = "recalc" THEN bot ELSE last.pre

\* C6: when the bootstrap runs with the position flat and the two legs b
\* (buy) and s (sell) of the bracket the study submitted are the only orders
\* of bracket shape, it leaves buy = b, sell = s and armed, whatever the
\* persistent ints held, and the tick that follows calls no submit.
C6_RestartRearmsBracket ==
    \A b \in OrderIds, s \in OrderIds :
        (/\ Bootstrapped
         /\ pos = 0
         /\ Shaped = {b, s}
         /\ orders[b].dir = 1 /\ orders[s].dir = -1)
            => /\ AfterBootstrap.buy = b
               /\ AfterBootstrap.sell = s
               /\ AfterBootstrap.armed
               /\ IF last.kind = "recalc"
                  THEN \A in \in TickInputs :
                           ~HasCall(MainLogic(bot, orders, pos, in).calls, "submit")
                  ELSE ~HasCall(last.calls, "submit")

\* The bootstrap re-armed legs 1 and 2 after a before-window reset had
\* zeroed the persistent ints.
C6_Witness ==
    /\ last.kind = "recalc"
    /\ last.pre = ZeroBot
    /\ pos = 0
    /\ Shaped = {1, 2}
    /\ orders[1].dir = 1 /\ orders[2].dir = -1
    /\ bot.buy = 1 /\ bot.sell = 2 /\ bot.armed

\* C7 (as stated): whenever the bootstrap runs on exactly two orders of
\* bracket shape at prices p1 < p2, it leaves buy = the order at p1, sell =
\* the order at p2 and armed, whatever the position.
C7_TwoCandidatesRearm ==
    \A a \in OrderIds, c \in OrderIds :
        (/\ last.kind = "recalc"
         /\ Shaped = {a, c}
         /\ orders[a].price < orders[c].price)
            => (bot.buy = a /\ bot.sell = c /\ bot.armed)

\* C7 (amended): whenever the bootstrap runs with the position flat on
\* exactly two orders of bracket shape at prices p1 < p2, it leaves buy = the
\* order at p1, sell = the order at p2, armed, no active parent and side
\* Flat, whatever the enumeration order and the persistent ints before.
C7_FlatTwoCandidatesRearm ==
    \A a \in OrderIds, c \in OrderIds :
        (/\ last.kind = "recalc"
         /\ pos = 0
         /\ Shaped = {a, c}
         /\ orders[a].price < orders[c].price)
            => bot = [buy |-> a, sell |-> c, active |-> 0, side |-> SIDE_FLAT,
                      armed |-> TRUE]

\* The cheaper candidate has the higher id and the persistent ints named
\* the legs the other way round.
C7_Witness ==
    /\ last.kind = "recalc"
    /\ pos = 0
    /\ Shaped = {1, 2}
    /\ orders[2].price < orders[1].price
    /\ last.pre.buy = 1 /\ last.pre.sell = 2 /\ last.pre.armed
    /\ bot.buy = 2 /\ bot.sell = 1 /\ bot.armed

\* C8 (as stated): whenever the bootstrap runs on zero, one, three or more
\* orders of bracket shape, it leaves all ids 0, not armed and side Flat.
C8_NotTwoResetsFlat ==
    (last.kind = "recalc" /\ Cardinality(Shaped) # 2) => bot = ZeroBot

\* C8 (amended): whenever the bootstrap runs on zero, one, three or more
\* orders of bracket shape, it leaves all ids 0 and not armed, and the side
\* is Long, Short or Flat by the sign of the position.
C8_NotTwoResetsIds ==
    (last.kind = "recalc" /\ Cardinality(Shaped) # 2) =>
        /\ bot.buy = 0 /\ bot.sell = 0 /\ bot.active = 0 /\ ~bot.armed
        /\ (pos > 0 => bot.side = SIDE_LONG)
        /\ (pos < 0 => bot.side = SIDE_SHORT)
        /\ (pos = 0 => bot.side = SIDE_FLAT)

\* Three candidates and an armed bracket on record: everything is reset.
C8_Witness ==
    /\ last.kind = "recalc"
    /\ Cardinality(Shaped) = 3
    /\ pos = 0
    /\ last.pre.armed
    /\ bot = ZeroBot

\* The last call reached STATE 3 (in a trade at the dispatch).
InState3 ==
    IsTick /\ last.path \in {"s3Inconsistent", "s3Wait", "s3Exit", "s3Safety"}

\* An order attached to the parent that was active before the call has one
\* of the statuses `sts`.
ChildReports(sts) ==
    /\ last.pre.active # 0
    /\ \E c \in OrderIds :
           orders[c].parent = last.pre.active /\ orders[c].status \in sts

\* How many times the call made the host call `op`.
NumCalls(op) == Cardinality({k \in 1..Len(last.calls) : last.calls[k].op = op})

\* C11 (as stated): a STATE 3 call in which an order attached to the active
\* parent reports Filled resets all persistent ints and does not call
\* sc.FlattenPosition, whatever the sibling's status and the enumeration
\* order.
C11_FilledChildNeverFlattens ==
    (InState3 /\ ChildReports({"Filled"})) =>
        (bot = ZeroBot /\ NumCalls("flatten") = 0)

\* C11 (amended): a STATE 3 call in which an order attached to the active
\* parent reports Filled resets all persistent ints; it calls
\* sc.FlattenPosition only when a sibling is Canceled or in Error and the
\* position is not zero, and never when the Filled order ends the scan.
C11_FilledChildResets ==
    (InState3 /\ ChildReports({"Filled"})) =>
        /\ bot = ZeroBot
        /\ NumCalls("flatten") > 0 =>
               (pos # 0 /\ ChildReports({"Canceled", "Error"}))
        /\ last.path = "s3Exit" => NumCalls("flatten") = 0

\* A Long trade whose target or stop filled and whose other attached order
\* the host canceled: the call reset everything and flattened nothing.
C11_Witness ==
    /\ InState3
    /\ last.pre.side = SIDE_LONG
    /\ ChildReports({"Filled"})
    /\ ChildReports({"Canceled"})
    /\ pos = 0
    /\ bot = ZeroBot
    /\ NumCalls("flatten") = 0

\* C12 (as stated): a STATE 3 call in which an order attached to the active
\* parent reports Canceled and none reports Filled calls sc.FlattenPosition
\* exactly once and resets all persistent ints.
C12_CanceledChildFlattensOnce ==
    (InState3 /\ ChildReports({"Canceled"}) /\ ~ChildReports({"Filled"})) =>
        (NumCalls("flatten") = 1 /\ bot = ZeroBot)

\* C12 (amended): a STATE 3 call in which an order attached to the active
\* parent reports Canceled and none reports Filled reads the position once,
\* calls sc.FlattenPosition exactly once when the quantity is not zero and
\* not at all when it is zero, and resets all persistent ints.
C12_CanceledChildFlattensOpen ==
    (InState3 /\ ChildReports({"Canceled"}) /\ ~ChildReports({"Filled"})) =>
        /\ NumCalls("getPosition") = 1
        /\ NumCalls("flatten") = (IF pos # 0 THEN 1 ELSE 0)
        /\ bot = ZeroBot

\* A Short trade with an attached order canceled and the position open: one
\* flatten call, everything reset.
C12_Witness ==
    /\ InState3
    /\ last.pre.side = SIDE_SHORT
    /\ ChildReports({"Canceled"})
    /\ ~ChildReports({"Filled"})
    /\ pos < 0
    /\ NumCalls("flatten") = 1
    /\ bot = ZeroBot

\* The ids of the tracked legs of the bracket that was armed before the call.
ArmedLegs ==
    IF last.pre.armed THEN {last.pre.buy, last.pre.sell} \ {0} ELSE {}

\* What the stop-time path does: cancels the tracked legs of an armed
\* bracket, reads the position once, flattens iff it is not zero, resets all
\* persistent ints and submits nothing.
StopEffects ==
    /\ CancelIds(last.calls) = ArmedLegs
    /\ NumCalls("cancel") = Cardinality(ArmedLegs)
    /\ NumCalls("getPosition") = 1
    /\ NumCalls("flatten") = (IF pos # 0 THEN 1 ELSE 0)
    /\ NumCalls("submit") = 0
    /\ bot = ZeroBot

C14_SecondCloseDoesNothing ==
    (/\ last.kind = "tick"
     /\ last.path = "after"
     /\ prev = "after"
     /\ pos = 0)
        => /\ NumCalls("cancel") = 0
           /\ NumCalls("flatten") = 0
           /\ bot = ZeroBot

\* The second stop-time call in a row, while the cancels the first one sent
\* are still queued.
C14_Witness ==
    /\ last.kind = "tick"
    /\ last.path = "after"
    /\ prev = "after"
    /\ pos = 0
    /\ pendingCancel = {1, 2}
    /\ last.calls = <<Call("getPosition", 0)>>
    /\ bot = ZeroBot

C16_GateBeforeDispatch ==
    (/\ IsTick
     /\ last.path \notin {"disabled", "badTick"}
     /\ last.win.use
     /\ (last.win.time < last.win.start \/ last.win.time >= last.win.stop))
        => /\ last.path \in {"before", "after"}
           /\ NumCalls("submit") = 0
           /\ NumCalls("getOrder") = 0
           /\ NumCalls("enumerate") = 0

\* Flat and not armed with a usable R value, outside the window: nothing is
\* submitted.
C16_Witness ==
    /\ IsTick
    /\ last.win.use
    /\ last.win.time >= last.win.stop
    /\ last.pre = ZeroBot
    /\ last.path = "after"
    /\ NumCalls("submit") = 0

\* The offset `o` is a whole number of tick increments, at least one.
WholeTicks(o) == o >= calc.tick /\ o % calc.tick = 0

\* C17: for every R > 0, fraction > 0 and tick increment, each of the entry,
\* stop and target offsets is a multiple of the tick increment and at least
\* one tick.
C17_OffsetFloor ==
    calc.done =>
        (WholeTicks(calc.entry) /\ WholeTicks(calc.stop) /\ WholeTicks(calc.target))

\* R times the entry fraction is less than half a tick and rounds to zero:
\* the entry offset is one tick.
C17_Witness ==
    /\ calc.done
    /\ 2 * calc.R * calc.fracs[1] < FracDen * calc.tick
    /\ RoundToIncrement(calc.R * calc.fracs[1], FracDen, calc.tick) = 0
    /\ calc.entry = calc.tick

\* The last call reached STATE 1 (flat and not armed at the dispatch).
InState1 == IsTick /\ last.path \in {"s1Skip", "s1Ok", "s1Fail"}

\* C18: a call runs at most one of the three state blocks, the one its
\* state at the dispatch selects: a call that resets the state to Flat (dead
\* bracket, exit, safety exit) does not submit, a call that submits polls no
\* leg and scans no attached order, and no call makes two transitions.
C18_OneBranchPerTick ==
    IsTick =>
        /\ InState1 => (last.pre.side = SIDE_FLAT /\ ~last.pre.armed)
        /\ InState2 => (last.pre.side = SIDE_FLAT /\ last.pre.armed)
        /\ InState3 => last.pre.side # SIDE_FLAT
        /\ last.path \in {"s2Dead", "s3Exit", "s3Safety", "s3Inconsistent"} =>
               NumCalls("submit") = 0
        /\ NumCalls("submit") > 0 =>
               /\ InState1
               /\ NumCalls("submit") = 1
               /\ NumCalls("getOrder") = 0
               /\ NumCalls("enumerate") = 0
        /\ InState1 => bot.side = SIDE_FLAT
        /\ InState2 => ~(bot.side # SIDE_FLAT /\ bot.active = 0)
        /\ InState3 => ~bot.armed

\* A dead bracket found with a usable R value: the call polled both legs
\* and submitted nothing.
C18_Witness ==
    /\ last.kind = "tick"
    /\ last.path = "s2Dead"
    /\ NumCalls("getOrder") = 2
    /\ NumCalls("submit") = 0
    /\ bot = ZeroBot

\* The tracked leg `id` reports one of the statuses `sts`.
LegReports(id, sts) == id # 0 /\ orders[id].status \in sts

\* C19: a STATE 2 call that finds one tracked leg Canceled or in Error and
\* the other Open zeroes the dead leg's id only (other id, armed, side Flat
\* unchanged) and submits and cancels nothing; a later STATE 2 call that
\* finds the remaining leg Filled enters the trade on that leg.
C19_DeadLegOnlyInvalidated ==
    InState2 =>
        /\ (/\ LegReports(last.pre.buy, {"Canceled", "Error"})
            /\ LegReports(last.pre.sell, {"Open"}))
               => /\ bot = [last.pre EXCEPT !.buy = 0]
                  /\ NumCalls("submit") = 0 /\ NumCalls("cancel") = 0
        /\ (/\ LegReports(last.pre.sell, {"Canceled", "Error"})
            /\ LegReports(last.pre.buy, {"Open"}))
               => /\ bot = [last.pre EXCEPT !.sell = 0]
                  /\ NumCalls("submit") = 0 /\ NumCalls("cancel") = 0
        /\ (last.pre.buy = 0 /\ LegReports(last.pre.sell, {"Filled"}))
               => bot = [buy |-> 0, sell |-> last.pre.sell,
                         active |-> last.pre.sell, side |-> SIDE_SHORT,
                         armed |-> FALSE]
        /\ (last.pre.sell = 0 /\ LegReports(last.pre.buy, {"Filled"}))
               => bot = [buy |-> last.pre.buy, sell |-> 0,
                         active |-> last.pre.buy, side |-> SIDE_LONG,
                         armed |-> FALSE]

\* The buy leg was invalidated earlier; the sell leg has filled since and
\* this call enters the Short trade.
C19_Witness ==
    /\ InState2
    /\ last.pre.buy = 0
    /\ last.pre.armed
    /\ orders[1].status \in {"Canceled", "Error"}
    /\ LegReports(last.pre.sell, {"Filled"})
    /\ bot.side = SIDE_SHORT
    /\ bot.active = last.pre.sell

\* C20: a STATE 2 call that ends flat with both leg ids 0 has disarmed the
\* bracket and submitted nothing, and the next call, when it runs the main
\* logic alone and reaches the state machine, runs STATE 1.
C20_DeadBracketResubmits ==
    /\ (InState2 /\ bot.buy = 0 /\ bot.sell = 0 /\ bot.side = SIDE_FLAT)
           => /\ last.path = "s2Dead"
              /\ ~bot.armed
              /\ NumCalls("submit") = 0
    /\ (/\ prev = "s2Dead"
        /\ last.kind = "tick"
        /\ (InState1 \/ InState2 \/ InState3)) => InState1

\* The call after a dead bracket reaches the state machine and calls
\* sc.SubmitOCOOrder.
C20_Witness ==
    /\ prev = "s2Dead"
    /\ last.kind = "tick"
    /\ InState1
    /\ NumCalls("submit") = 1

\* C21: a call whose submission the host refuses ends with both leg ids 0,
\* the bracket not armed and the side Flat, and the next call, when it runs
\* the main logic alone and reaches the state machine, runs STATE 1 again
\* and calls sc.SubmitOCOOrder again.
C21_FailedSubmitRetried ==
    /\ (IsTick /\ last.path = "s1Fail")
           => /\ bot.buy = 0 /\ bot.sell = 0
              /\ ~bot.armed
              /\ bot.side = SIDE_FLAT
    /\ (/\ prev = "s1Fail"
        /\ last.kind = "tick"
        /\ (InState1 \/ InState2 \/ InState3))
           => InState1 /\ NumCalls("submit") = 1

\* The call after a refused submission submits again and is accepted.
C21_Witness ==
    /\ prev = "s1Fail"
    /\ last.kind = "tick"
    /\ last.path = "s1Ok"
    /\ NumCalls("submit") = 1
    /\ bot.armed

\* C22: every bracket STATE 1 submits carries the buy limit close - entry
\* offset and the sell limit close + entry offset, each rounded to the tick
\* size, with the buy limit below the sell limit; when the buy limit is not
\* below the sell limit after the one-tick adjustment, the call submits
\* nothing and changes no persistent int.
C22_EntryPrices ==
    /\ calc.path \in {"s1Ok", "s1Fail"} =>
           /\ calc.calls = 1
           /\ RoundedPrice(calc.close - calc.entry, calc.tick)
                  < RoundedPrice(calc.close + calc.entry, calc.tick)
    /\ calc.path = "s1Ok" =>
           /\ calc.sub[1].buy = RoundedPrice(calc.close - calc.entry, calc.tick)
           /\ calc.sub[1].sell = RoundedPrice(calc.close + calc.entry, calc.tick)
           /\ calc.sub[1].buy < calc.sub[1].sell
    /\ calc.path = "s1Skip" =>
           /\ calc.calls = 0
           /\ calc.sub = <<>>
           /\ bot = ZeroBot

\* A close so large that both limits round to it: the adjusted buy limit is
\* still not below the sell limit and nothing is submitted.
C22_Witness ==
    /\ calc.path = "s1Skip"
    /\ RoundedPrice(calc.close - calc.entry, calc.tick)
           >= RoundedPrice(calc.close + calc.entry, calc.tick)
    /\ calc.calls = 0
    /\ bot = ZeroBot

\* C23: once the active filled parent id is nonzero, no step changes it
\* except a call that detects the exit or forces the position flat (the
\* STATE 3 exit, safety exit and inconsistency paths, the stop-time path).
C23_ActiveParentKept ==
    [][bot.active # 0 =>
           \/ bot'.active = bot.active
           \/ last'.path \in {"s3Exit", "s3Safety", "s3Inconsistent", "after"}]_vars

\* The last call reached the state machine.
Dispatched == InState1 \/ InState2 \/ InState3

\* The last call reached the state machine in a trade with no active parent.
FoundInconsistent ==
    Dispatched /\ last.pre.side # SIDE_FLAT /\ last.pre.active = 0

\* C24: a call that reaches the state machine in a trade with no active
\* parent calls sc.FlattenPosition and ends with every persistent int zero,
\* without enumerating the orders.
C24_InconsistentAlwaysFlattens ==
    FoundInconsistent =>
        /\ NumCalls("flatten") = 1
        /\ bot = ZeroBot
        /\ NumCalls("enumerate") = 0

\* C24, with the flatten depending on the position: the call reads the
\* position once, calls sc.FlattenPosition once when the quantity is not
\* zero and not at all when it is zero, and in both cases ends with every
\* persistent int zero, having enumerated, submitted and canceled nothing.
C24_InconsistentFlattensOpen ==
    FoundInconsistent =>
        /\ last.path = "s3Inconsistent"
        /\ NumCalls("getPosition") = 1
        /\ NumCalls("flatten") = (IF pos # 0 THEN 1 ELSE 0)
        /\ bot = ZeroBot
        /\ NumCalls("enumerate") = 0
        /\ NumCalls("getOrder") = 0
        /\ NumCalls("submit") = 0
        /\ NumCalls("cancel") = 0

\* The inconsistency found with the position open: the flatten is sent.
C24_Witness ==
    /\ FoundInconsistent
    /\ pos # 0
    /\ NumCalls("flatten") = 1
    /\ bot = ZeroBot

\* STATE 2 queried the leg `id` and the host did not find it.
LostInCall(id) == InState2 /\ id # 0 /\ id \in NotFound

\* The last call queried the leg `id`.
Queried(id) ==
    \E k \in 1..Len(last.calls) :
        last.calls[k].op = "getOrder" /\ last.calls[k].id = id

\* Nothing is submitted, canceled or flattened by the last call.
NoOrderAction ==
    /\ NumCalls("submit") = 0
    /\ NumCalls("cancel") = 0
    /\ NumCalls("flatten") = 0

\* C25: a STATE 2 call whose query of a tracked leg finds no order leaves
\* that leg's id unchanged and the bracket armed, unless the other leg fills,
\* and cancels, flattens and submits nothing; the next call that reaches the
\* state machine queries the same leg again.
C25_LostLegAlwaysRequeried ==
    /\ LostInCall(last.pre.buy) =>
           /\ (bot.buy = last.pre.buy /\ bot.armed) \/ ReportsFilled(last.pre.sell)
           /\ NoOrderAction
    /\ LostInCall(last.pre.sell) =>
           /\ (bot.sell = last.pre.sell /\ bot.armed) \/ ReportsFilled(last.pre.buy)
           /\ NoOrderAction
    /\ (prev \in {"lostBuy", "lostBoth"} /\ last.kind = "tick" /\ Dispatched)
           => Queried(LostBuy)
    /\ (prev \in {"lostSell", "lostBoth"} /\ last.kind = "tick" /\ Dispatched)
           => Queried(LostSell)

\* C25, with the cases the fill of the other leg decides: the lost leg's id
\* and the armed flag are unchanged unless the other leg is found Filled in
\* the same call (the entry transition then clears the lost buy leg's id);
\* nothing is canceled, flattened or submitted; and the next call that
\* reaches STATE 2 queries the lost leg again, unless it is the sell leg and
\* the buy leg is found Filled.
C25_LostLegRequeriedWhileArmed ==
    /\ LostInCall(last.pre.buy) =>
           /\ NoOrderAction
           /\ IF ReportsFilled(last.pre.sell)
              THEN bot = EnterTrade(last.pre, SIDE_SHORT, last.pre.sell)
              ELSE bot.buy = last.pre.buy /\ bot.armed /\ bot.side = SIDE_FLAT
    /\ LostInCall(last.pre.sell) =>
           /\ NoOrderAction
           /\ bot.sell = last.pre.sell
           /\ bot.armed
           /\ bot.side = SIDE_FLAT
    /\ (prev \in {"lostBuy", "lostBoth"} /\ last.kind = "tick" /\ InState2)
           => Queried(LostBuy)
    /\ (/\ prev \in {"lostSell", "lostBoth"}
        /\ last.kind = "tick"
        /\ InState2
        /\ ~ReportsFilled(last.pre.buy))
           => Queried(LostSell)

\* The sell leg was not found by the previous call; this call queries it
\* again, does not find it again, and the bracket stays armed.
C25_Witness ==
    /\ prev = "lostSell"
    /\ InState2
    /\ LostInCall(LostSell)
    /\ bot.sell = LostSell
    /\ bot.armed

\* C26: a call of the main logic with "Enable Trading" off changes no
\* persistent int and makes no call on the trading interface, whatever the
\* state, the position and the time; the bootstrap of the same call, if any,
\* has run before.
C26_DisabledDoesNothing ==
    (IsTick /\ ~last.enabled) =>
        /\ last.path = "disabled"
        /\ bot = last.pre
        /\ last.calls = <<>>

\* Trading is switched off while in a trade with the position open and the
\* time past the stop time: the call does nothing.
C26_Witness ==
    /\ last.kind = "tick"
    /\ ~last.enabled
    /\ last.win.use /\ last.win.time >= last.win.stop
    /\ bot.side # SIDE_FLAT
    /\ pos # 0
    /\ last.calls = <<>>

\* C27: in every reachable state, between calls and at the end of every
\* call, a Flat trade side comes with a zero active filled parent id.
C27_FlatHasNoActiveParent ==
    bot.side = SIDE_FLAT => bot.active = 0

\* A trade with an active parent ended by the exit of STATE 3.
C27_Witness ==
    /\ InState3
    /\ last.pre.active # 0
    /\ last.path = "s3Exit"
    /\ bot.side = SIDE_FLAT
    /\ bot.active = 0

\* C28: at the end of every call (bootstrap or main logic) and between
\* calls, an armed bracket has at least one nonzero leg id, and a Flat side
\* with the bracket not armed has both leg ids zero.
C28_ArmedTracksALeg ==
    /\ bot.armed => (bot.buy # 0 \/ bot.sell # 0)
    /\ (bot.side = SIDE_FLAT /\ ~bot.armed) => (bot.buy = 0 /\ bot.sell = 0)

\* An armed bracket left with one tracked leg after the other was found
\* canceled.
C28_Witness ==
    /\ InState2
    /\ last.pre.buy # 0
    /\ bot.armed
    /\ bot.buy = 0
    /\ bot.sell # 0

\* The last call is the first to reach the state machine after a bootstrap
\* that found the position open.
FirstAfterRestart(marks) ==
    \/ prev \in marks /\ last.kind = "tick" /\ Dispatched
    \/ last.kind = "recalcTick" /\ Dispatched /\ pos # 0 /\ "restart" \in marks

\* What the inconsistency path does: the flatten when the position is open,
\* the side Flat, no order inspected.
FlattensUnseen ==
    /\ NumCalls("flatten") = (IF pos # 0 THEN 1 ELSE 0)
    /\ bot.side = SIDE_FLAT
    /\ NumCalls("enumerate") = 0
    /\ NumCalls("getOrder") = 0

\* C29: after a bootstrap that found the position open, the first call that
\* reaches the state machine calls sc.FlattenPosition if the position is
\* still open and sets the side Flat, without inspecting any attached order.
C29_RestartAlwaysFlattens ==
    FirstAfterRestart({"restart", "restartClosed"}) => FlattensUnseen

\* C29, with the stop-time path set apart: when no call has taken the
\* stop-time path since the bootstrap, the first call that reaches the state
\* machine flattens the open position unseen and sets the side Flat; when one
\* has, that call has already reset the state and the first call that
\* reaches the state machine runs STATE 1.
C29_RestartFlattensUnlessClosed ==
    /\ FirstAfterRestart({"restart"}) =>
           /\ last.path = "s3Inconsistent"
           /\ FlattensUnseen
           /\ NumCalls("submit") = 0
    /\ FirstAfterRestart({"restartClosed"}) => InState1

\* A restart in a trade, then a call that reaches the state machine with the
\* position still open: the flatten is sent.
C29_Witness ==
    /\ prev = "restart"
    /\ last.kind = "tick"
    /\ Dispatched
    /\ pos # 0
    /\ NumCalls("flatten") = 1
    /\ bot.side = SIDE_FLAT

\* Every leg the persistent ints `b` track reports Filled, Canceled or Error.
LegsResolved(b) ==
    \A id \in {b.buy, b.sell} \ {0} :
        OrderFound(orders, id) /\ orders[id].status \in {"Filled", "Canceled", "Error"}

\* C30: when calls that reach the state machine keep coming, the bracket
\* does not stay armed forever with every tracked leg Filled, Canceled or in
\* Error: it is disarmed (in a trade, or flat and ready) again and again.
C30_ArmedBracketResolves ==
    []<>(~(bot.armed /\ LegsResolved(bot)))

\* An armed bracket whose buy leg ended Canceled or in Error and whose sell
\* leg Filled: the call that polls them disarms the bracket.
C30_Witness ==
    /\ InState2
    /\ last.pre.buy # 0 /\ last.pre.sell # 0
    /\ LegsResolved(last.pre)
    /\ ~ReportsFilled(last.pre.buy)
    /\ ReportsFilled(last.pre.sell)
    /\ ~bot.armed

\* The study is in a trade and an order attached to its active parent
\* reports Filled, Canceled or Error.
TradeResolved ==
    /\ bot.side # SIDE_FLAT
    /\ bot.active # 0
    /\ \E c \in OrderIds :
           /\ orders[c].parent = bot.active
           /\ orders[c].status \in {"Filled", "Canceled", "Error"}

\* C31: when calls that reach the state machine keep coming, a trade whose
\* active parent has an attached order Filled, Canceled or in Error (statuses
\* an order never leaves) leads to the side Flat with every persistent int
\* zero.
C31_TradeEnds == TradeResolved ~> (bot = ZeroBot)

\* A trade whose attached order went into Error: the call that scans the
\* order list resets every persistent int.
C31_Witness ==
    /\ InState3
    /\ ChildReports({"Error"})
    /\ ~ChildReports({"Filled", "Canceled"})
    /\ last.path = "s3Safety"
    /\ bot = ZeroBot

\* The last call ran the main logic with trading enabled, a valid tick size
\* and the trading window in use with its start time not before its stop
\* time.
InvertedWindow ==
    /\ IsTick
    /\ last.enabled
    /\ last.path # "badTick"
    /\ last.win.use
    /\ last.win.start >= last.win.stop

\* C32: with the trading window in use and its start time not before its
\* stop time, no call reaches the state machine: a call with trading enabled
\* and a valid tick size takes the before-start path when the time is before
\* the start time and the stop-time path otherwise, and submits nothing.
C32_InvertedWindowNeverTrades ==
    InvertedWindow =>
        /\ last.path = (IF last.win.time < last.win.start THEN "before" ELSE "after")
        /\ ~Dispatched
        /\ NumCalls("submit") = 0

\* A window from a start time to an earlier stop time, the study flat and
\* not armed, the time at the start time: the call takes the stop-time path.
C32_Witness ==
    /\ InvertedWindow
    /\ last.win.start > last.win.stop
    /\ last.win.time >= last.win.start
    /\ last.pre = ZeroBot
    /\ last.path = "after"
====
